---- MODULE Spec2Model ----
\* Model of the Unlocker smart contract (unlocker/src/lib.rs): a liquidity
\* bridge that swaps "from" tokens for a "to" token minus a fee, credits
\* depositors of the "to" token and lets them harvest their credit.
\* Every endpoint call is one atomic transaction: a failed require! aborts the
\* call, the host reverts its effects and returns the attached payment.
EXTENDS Integers, FiniteSets, Sequences, TLC

\* ---------------------------------------------------------------- constants
PERCENTAGE_TOTAL == 10000
MINIMUM_DEPOSIT == 1000

\* ------------------------------------------------------------------- bounds
\* number of accepted transactions explored
MaxSteps == 4
\* token nonces range over 0..MaxNonce
MaxNonce == 1

\* ------------------------------------------------------------- input domains
Owner == "owner"
ZeroAddress == "zero"
Callers == {Owner, "alice", ZeroAddress}
EGLD == "EGLD"
NoToken == ""
Tokens == {"AAA-111111", "BBB-222222", EGLD}
Nonces == 0..MaxNonce
Amounts == {0, 999, 1000, 9999, 10000}
Fees == {0, 1, 500, 9999, 10000}
\* payments the host can attach to a call: EGLD carries no nonce
Payments == {p \in Tokens \X Nonces : p[1] = EGLD => p[2] = 0}

OK == "ok"
NotOwner == "Endpoint can only be called by owner"

VARIABLES
    deployed,           \* init has run successfully
    fee_percent,        \* storage "fee_percent"
    to_token,           \* storage "to_token"
    from_tokens,        \* storage "from_tokens"
    depositor_balance,  \* storage "depositor_balance", per address
    sc_balance,         \* balance the contract holds, per <<token, nonce>>
    credited,           \* history: total credit deposit granted, per address
    harvested,          \* history: total amount harvest paid out, per address
    steps,              \* accepted transactions so far
    last                \* the last call: its inputs, result and transfer

vars == <<deployed, fee_percent, to_token, from_tokens, depositor_balance,
          sc_balance, credited, harvested, steps, last>>

\* the administrator's configuration, and everything the contract persists
config == <<fee_percent, to_token, from_tokens>>
persisted == <<fee_percent, to_token, from_tokens, depositor_balance, sc_balance>>

\* ------------------------------------------------------------ host interface
is_zero(address) == address = ZeroAddress

is_valid_esdt_identifier(asset) == asset \in Tokens \ {EGLD}

\* an endpoint left without its owner check
only_owner_missing(caller) == TRUE

only_owner(caller) == caller = Owner

get_sc_balance(bal, token, nonce) == bal[<<token, nonce>>]

\* the attached payment is in the contract's balance when the endpoint runs
receive_payment(bal, token, nonce, amount) ==
    [bal EXCEPT ![<<token, nonce>>] = @ + amount]

\* send().direct: debit the contract's balance of token/nonce
direct(bal, token, nonce, amount) ==
    [bal EXCEPT ![<<token, nonce>>] = @ - amount]

NoTransfer == [sent |-> FALSE, to |-> "", token |-> NoToken, nonce |-> 0,
               amount |-> 0, held |-> 0]

Transfer(bal, to, token, nonce, amount) ==
    [sent |-> TRUE, to |-> to, token |-> token, nonce |-> nonce,
     amount |-> amount, held |-> get_sc_balance(bal, token, nonce)]

Call(op, caller, token, nonce, amount, token2, result, out) ==
    [op |-> op, caller |-> caller, token |-> token, nonce |-> nonce,
     amount |-> amount, token2 |-> token2, result |-> result, out |-> out]

\* ---------------------------------------------------------- private methods
\* the percentage rounded up instead of down
calculate_percentage_ceil(total_amount, percentage) ==
    (total_amount * percentage + PERCENTAGE_TOTAL - 1) \div PERCENTAGE_TOTAL

calculate_percentage(total_amount, percentage) ==
    (total_amount * percentage) \div PERCENTAGE_TOTAL

\* the fee taken off the deposit instead of added to it
calculate_amount_less_fees(amount) ==
    amount - calculate_percentage(amount, fee_percent)

calculate_amount_with_fees(amount) ==
    amount + calculate_percentage(amount, fee_percent)

get_liquidity_balance(bal) == get_sc_balance(bal, to_token, 0)

\* ------------------------------------------------------------------- checks
\* each returns OK or the message of the first require! that fails

\* the upper bound of line 137 taken inclusive
try_set_fee_percentage_inclusive(new_fee_percentage) ==
    IF new_fee_percentage > 0 /\ new_fee_percentage <= PERCENTAGE_TOTAL
    THEN OK
    ELSE "Invalid percentage value, should be between 0 and 10,000"

\* the lower bound of line 137 taken inclusive
try_set_fee_percentage_zero(new_fee_percentage) ==
    IF new_fee_percentage >= 0 /\ new_fee_percentage < PERCENTAGE_TOTAL
    THEN OK
    ELSE "Invalid percentage value, should be between 0 and 10,000"

try_set_fee_percentage(new_fee_percentage) ==
    IF new_fee_percentage > 0 /\ new_fee_percentage < PERCENTAGE_TOTAL
    THEN OK
    ELSE "Invalid percentage value, should be between 0 and 10,000"

add_token_check(asset) ==
    IF is_valid_esdt_identifier(asset) THEN OK ELSE "Invalid ESDT"

\* init without the validation of the output asset
init_check_skips_to_token(from_token, to_tok, fee) ==
    IF try_set_fee_percentage(fee) # OK THEN try_set_fee_percentage(fee)
    ELSE add_token_check(from_token)

init_check(from_token, to_tok, fee) ==
    IF try_set_fee_percentage(fee) # OK THEN try_set_fee_percentage(fee)
    ELSE IF add_token_check(from_token) # OK THEN add_token_check(from_token)
    ELSE add_token_check(to_tok)

swap_amount_after_fee(amount) ==
    amount - calculate_percentage(amount, fee_percent)

\* the minimum amount of line 25 taken exclusive
swap_check_strict_minimum(caller, token_id, amount, bal) ==
    IF ~(amount > PERCENTAGE_TOTAL) THEN "amount too small"
    ELSE IF is_zero(caller) THEN "invalid caller"
    ELSE IF token_id \notin from_tokens THEN "token not supported"
    ELSE IF ~(fee_percent > 0) THEN "zero fee"
    ELSE IF ~(swap_amount_after_fee(amount) < amount) THEN "incorrect fee"
    ELSE IF ~(swap_amount_after_fee(amount) <= get_liquidity_balance(bal))
         THEN "no liquidity"
    ELSE IF ~(swap_amount_after_fee(amount) > 0) THEN "nothing to send"
    ELSE OK

\* swap without the liquidity check of line 39
swap_check_no_liquidity(caller, token_id, amount, bal) ==
    IF ~(amount >= PERCENTAGE_TOTAL) THEN "amount too small"
    ELSE IF is_zero(caller) THEN "invalid caller"
    ELSE IF token_id \notin from_tokens THEN "token not supported"
    ELSE IF ~(fee_percent > 0) THEN "zero fee"
    ELSE IF ~(swap_amount_after_fee(amount) < amount) THEN "incorrect fee"
    ELSE IF ~(swap_amount_after_fee(amount) > 0) THEN "nothing to send"
    ELSE OK

swap_check(caller, token_id, amount, bal) ==
    IF ~(amount >= PERCENTAGE_TOTAL) THEN "amount too small"
    ELSE IF is_zero(caller) THEN "invalid caller"
    ELSE IF token_id \notin from_tokens THEN "token not supported"
    ELSE IF ~(fee_percent > 0) THEN "zero fee"
    ELSE IF ~(swap_amount_after_fee(amount) < amount) THEN "incorrect fee"
    ELSE IF ~(swap_amount_after_fee(amount) <= get_liquidity_balance(bal))
         THEN "no liquidity"
    ELSE IF ~(swap_amount_after_fee(amount) > 0) THEN "nothing to send"
    ELSE OK

\* the minimum deposit of line 65 taken exclusive
deposit_check_strict_minimum(caller, token_id, amount) ==
    IF is_zero(caller) THEN "invalid caller"
    ELSE IF to_token # token_id THEN "token not supported"
    ELSE IF ~(amount > 0) THEN "incorrect amount"
    ELSE IF ~(amount > MINIMUM_DEPOSIT)
         THEN "Deposit amount must be greater than or equal to minimum deposit"
    ELSE OK

deposit_check(caller, token_id, amount) ==
    IF is_zero(caller) THEN "invalid caller"
    ELSE IF to_token # token_id THEN "token not supported"
    ELSE IF ~(amount > 0) THEN "incorrect amount"
    ELSE IF ~(amount >= MINIMUM_DEPOSIT)
         THEN "Deposit amount must be greater than or equal to minimum deposit"
    ELSE OK

\* harvest letting the output asset through the check of line 93
harvest_check_output_asset(caller, token, nonce, amount) ==
    LET sc_bal == get_sc_balance(sc_balance, token, nonce)
        dep_balance == depositor_balance[caller]
    IN  IF is_zero(caller) THEN "invalid caller"
        ELSE IF token \notin from_tokens \cup {to_token} THEN "token not supported"
        ELSE IF ~(amount > 0) THEN "Invalid amount"
        ELSE IF ~(sc_bal > 0) THEN "Insufficient contract funds (0)"
        ELSE IF ~(dep_balance > 0) THEN "Insufficient depositor funds (0)"
        ELSE IF ~(sc_bal >= amount) THEN "Insufficient sc funds"
        ELSE IF ~(dep_balance >= amount) THEN "Insufficient depositor funds"
        ELSE OK

\* harvest without the depositor-funds check of line 98
harvest_check_no_dep_funds(caller, token, nonce, amount) ==
    LET sc_bal == get_sc_balance(sc_balance, token, nonce)
        dep_balance == depositor_balance[caller]
    IN  IF is_zero(caller) THEN "invalid caller"
        ELSE IF token \notin from_tokens THEN "token not supported"
        ELSE IF ~(amount > 0) THEN "Invalid amount"
        ELSE IF ~(sc_bal > 0) THEN "Insufficient contract funds (0)"
        ELSE IF ~(dep_balance > 0) THEN "Insufficient depositor funds (0)"
        ELSE IF ~(sc_bal >= amount) THEN "Insufficient sc funds"
        ELSE OK

harvest_check(caller, token, nonce, amount) ==
    LET sc_bal == get_sc_balance(sc_balance, token, nonce)
        dep_balance == depositor_balance[caller]
    IN  IF is_zero(caller) THEN "invalid caller"
        ELSE IF token \notin from_tokens THEN "token not supported"
        ELSE IF ~(amount > 0) THEN "Invalid amount"
        ELSE IF ~(sc_bal > 0) THEN "Insufficient contract funds (0)"
        ELSE IF ~(dep_balance > 0) THEN "Insufficient depositor funds (0)"
        ELSE IF ~(sc_bal >= amount) THEN "Insufficient sc funds"
        ELSE IF ~(dep_balance >= amount) THEN "Insufficient depositor funds"
        ELSE OK

set_fee_check(caller, new_fee_percentage) ==
    IF ~only_owner(caller) THEN NotOwner
    ELSE try_set_fee_percentage(new_fee_percentage)

add_from_token_check(caller, asset) ==
    IF ~only_owner(caller) THEN NotOwner ELSE add_token_check(asset)

add_to_token_check(caller, asset) ==
    IF ~only_owner(caller) THEN NotOwner ELSE add_token_check(asset)

withdraw_check(caller) ==
    IF ~only_owner(caller) THEN NotOwner ELSE OK

\* ------------------------------------------------------------ state updates
\* the storage writes of an endpoint, committed only if the call is accepted

\* the credit stored under the owner's address instead of the caller's
deposit_update_owner_key(caller, amount, r) ==
    IF r = OK
    THEN [depositor_balance EXCEPT ![Owner] = @ + calculate_amount_with_fees(amount)]
    ELSE depositor_balance

\* the credit written before the minimum-deposit check of line 64
deposit_update_before_minimum(caller, amount, r) ==
    IF r \in {OK, "Deposit amount must be greater than or equal to minimum deposit"}
    THEN [depositor_balance EXCEPT ![caller] = @ + calculate_amount_with_fees(amount)]
    ELSE depositor_balance

deposit_update(caller, amount, r) ==
    IF r = OK
    THEN [depositor_balance EXCEPT ![caller] = @ + calculate_amount_with_fees(amount)]
    ELSE depositor_balance

\* the harvested amount added to the balance instead of taken off it
harvest_update_add(caller, amount, r) ==
    IF r = OK
    THEN [depositor_balance EXCEPT ![caller] = @ + amount]
    ELSE depositor_balance

harvest_update(caller, amount, r) ==
    IF r = OK
    THEN [depositor_balance EXCEPT ![caller] = @ - amount]
    ELSE depositor_balance

set_fee_update(new_fee_percentage, r) ==
    IF r = OK THEN new_fee_percentage ELSE fee_percent

\* the asset stored in place of the set instead of inserted into it
add_from_token_update_replace(asset, r) ==
    IF r = OK THEN {asset} ELSE from_tokens

add_from_token_update(asset, r) ==
    IF r = OK THEN from_tokens \cup {asset} ELSE from_tokens

add_to_token_update(asset, r) ==
    IF r = OK THEN asset ELSE to_token

\* the balance read for nonce 0 whatever nonce is withdrawn
withdraw_amount_nonce0(token, nonce) == get_sc_balance(sc_balance, token, 0)

\* the amount withdraw sends: the whole balance of token/nonce
withdraw_amount(token, nonce) == get_sc_balance(sc_balance, token, nonce)

Count(r) == IF r = OK THEN steps + 1 ELSE steps

\* A rejected call is reverted by the host, so the storage and the balances
\* after it are those before it and every continuation of a rejected call is
\* a continuation of the state it was made in.  A run is therefore followed up
\* to its first rejected call, over at most MaxSteps accepted calls.
Running == last.result = OK /\ steps < MaxSteps

\* --------------------------------------------------------------------- Init
Init ==
    /\ deployed = FALSE
    /\ fee_percent = 0
    /\ to_token = NoToken
    /\ from_tokens = {}
    /\ depositor_balance = [a \in Callers |-> 0]
    /\ sc_balance = [p \in Tokens \X Nonces |-> 0]
    /\ credited = [a \in Callers |-> 0]
    /\ harvested = [a \in Callers |-> 0]
    /\ steps = 0
    /\ last = Call("none", "", NoToken, 0, 0, NoToken, OK, NoTransfer)

\* ------------------------------------------------------------------ actions
\* deployment: init(from_token, to_token, fee_percent), called by the owner
Deploy ==
    /\ ~deployed
    /\ Running
    /\ \E from_token \in Tokens, to_tok \in Tokens, fee \in Fees :
        LET r == init_check(from_token, to_tok, fee) IN
        /\ deployed' = (r = OK)
        /\ fee_percent' = set_fee_update(fee, r)
        /\ from_tokens' = add_from_token_update(from_token, r)
        /\ to_token' = add_to_token_update(to_tok, r)
        /\ steps' = Count(r)
        /\ last' = Call("init", Owner, from_token, 0, fee, to_tok, r, NoTransfer)
        /\ UNCHANGED <<depositor_balance, sc_balance, credited, harvested>>

Swap ==
    /\ deployed
    /\ Running
    /\ \E caller \in Callers, p \in Payments, amount \in Amounts :
        LET token_id == p[1]
            bal == receive_payment(sc_balance, token_id, p[2], amount)
            r == swap_check(caller, token_id, amount, bal)
            amount_after_fee == swap_amount_after_fee(amount)
        IN
        /\ sc_balance' = IF r = OK THEN direct(bal, to_token, 0, amount_after_fee)
                         ELSE sc_balance
        /\ steps' = Count(r)
        /\ last' = Call("swap", caller, token_id, p[2], amount, NoToken, r,
                        IF r = OK
                        THEN Transfer(bal, caller, to_token, 0, amount_after_fee)
                        ELSE NoTransfer)
        /\ UNCHANGED <<deployed, fee_percent, to_token, from_tokens, depositor_balance,
                       credited, harvested>>

Deposit ==
    /\ deployed
    /\ Running
    /\ \E caller \in Callers, p \in Payments, amount \in Amounts :
        LET token_id == p[1]
            bal == receive_payment(sc_balance, token_id, p[2], amount)
            r == deposit_check(caller, token_id, amount)
        IN
        /\ depositor_balance' = deposit_update(caller, amount, r)
        /\ sc_balance' = IF r = OK THEN bal ELSE sc_balance
        /\ steps' = Count(r)
        /\ credited' = IF r = OK
                       THEN [credited EXCEPT ![caller] = @ + calculate_amount_with_fees(amount)]
                       ELSE credited
        /\ last' = Call("deposit", caller, token_id, p[2], amount, NoToken, r, NoTransfer)
        /\ UNCHANGED <<deployed, fee_percent, to_token, from_tokens, harvested>>

Harvest ==
    /\ deployed
    /\ Running
    /\ \E caller \in Callers, token \in Tokens, nonce \in Nonces, amount \in Amounts :
        LET r == harvest_check(caller, token, nonce, amount) IN
        /\ sc_balance' = IF r = OK THEN direct(sc_balance, token, nonce, amount)
                         ELSE sc_balance
        /\ depositor_balance' = harvest_update(caller, amount, r)
        /\ steps' = Count(r)
        /\ last' = Call("harvest", caller, token, nonce, amount, NoToken, r,
                        IF r = OK
                        THEN Transfer(sc_balance, caller, token, nonce, amount)
                        ELSE NoTransfer)
        /\ harvested' = IF r = OK THEN [harvested EXCEPT ![caller] = @ + amount]
                        ELSE harvested
        /\ UNCHANGED <<deployed, fee_percent, to_token, from_tokens, credited>>

SetFee ==
    /\ deployed
    /\ Running
    /\ \E caller \in Callers, new_fee_percentage \in Fees :
        LET r == set_fee_check(caller, new_fee_percentage) IN
        /\ fee_percent' = set_fee_update(new_fee_percentage, r)
        /\ steps' = Count(r)
        /\ last' = Call("setFee", caller, NoToken, 0, new_fee_percentage, NoToken, r, NoTransfer)
        /\ UNCHANGED <<deployed, to_token, from_tokens, depositor_balance, sc_balance,
                       credited, harvested>>

AddFromToken ==
    /\ deployed
    /\ Running
    /\ \E caller \in Callers, asset \in Tokens :
        LET r == add_from_token_check(caller, asset) IN
        /\ from_tokens' = add_from_token_update(asset, r)
        /\ steps' = Count(r)
        /\ last' = Call("addFromToken", caller, asset, 0, 0, NoToken, r, NoTransfer)
        /\ UNCHANGED <<deployed, fee_percent, to_token, depositor_balance, sc_balance,
                       credited, harvested>>

SetToToken ==
    /\ deployed
    /\ Running
    /\ \E caller \in Callers, asset \in Tokens :
        LET r == add_to_token_check(caller, asset) IN
        /\ to_token' = add_to_token_update(asset, r)
        /\ steps' = Count(r)
        /\ last' = Call("setToToken", caller, asset, 0, 0, NoToken, r, NoTransfer)
        /\ UNCHANGED <<deployed, fee_percent, from_tokens, depositor_balance, sc_balance,
                       credited, harvested>>

Withdraw ==
    /\ deployed
    /\ Running
    /\ \E caller \in Callers, token \in Tokens, nonce \in Nonces :
        LET r == withdraw_check(caller)
            amount == withdraw_amount(token, nonce)
        IN
        /\ sc_balance' = IF r = OK THEN direct(sc_balance, token, nonce, amount)
                         ELSE sc_balance
        /\ steps' = Count(r)
        /\ last' = Call("withdraw", caller, token, nonce, 0, NoToken, r,
                        IF r = OK
                        THEN Transfer(sc_balance, Owner, token, nonce, amount)
                        ELSE NoTransfer)
        /\ UNCHANGED <<deployed, fee_percent, to_token, from_tokens, depositor_balance,
                       credited, harvested>>

Next ==
    \/ Deploy
    \/ Swap
    \/ Deposit
    \/ Harvest
    \/ SetFee
    \/ AddFromToken
    \/ SetToToken
    \/ Withdraw

Spec == Init /\ [][Next]_vars

\* ------------------------------------------------------------------- typing
TypeOK ==
    /\ deployed \in BOOLEAN
    /\ fee_percent \in Nat
    /\ to_token \in Tokens \cup {NoToken}
    /\ from_tokens \subseteq Tokens
    /\ depositor_balance \in [Callers -> Int]
    /\ sc_balance \in [Tokens \X Nonces -> Int]
    /\ credited \in [Callers -> Nat]
    /\ harvested \in [Callers -> Nat]
    /\ steps \in 0..MaxSteps

\* ------------------------------------------------------------------- claims
Accepted(op) == last.op = op /\ last.result = OK

\* C1: a harvest succeeds only if the caller's balance and the contract's
\* balance of the asset/nonce are both >= amount; on success the caller's
\* balance drops by amount and exactly amount of the asset/nonce is sent to the
\* caller; a harvest that does not succeed changes no persisted state.
C1_Harvest ==
    [][last'.op = "harvest" =>
        LET c == last'.caller
            k == <<last'.token, last'.nonce>>
            a == last'.amount
        IN  /\ last'.result = OK =>
                /\ depositor_balance[c] >= a
                /\ sc_balance[k] >= a
                /\ depositor_balance' = [depositor_balance EXCEPT ![c] = @ - a]
                /\ sc_balance' = [sc_balance EXCEPT ![k] = @ - a]
                /\ last'.out = [sent |-> TRUE, to |-> c, token |-> k[1],
                                nonce |-> k[2], amount |-> a, held |-> sc_balance[k]]
            /\ last'.result # OK =>
                /\ UNCHANGED persisted
                /\ ~last'.out.sent]_vars

\* a harvest of an input asset other than the output asset was accepted
C1_Witness ==
    /\ Accepted("harvest")
    /\ last.token # to_token
    /\ last.out.amount = last.amount

\* C2: every depositor balance is >= 0, and every transfer out of the contract
\* is for no more than the contract holds of that asset/nonce when it is sent.
C2_NoOverdraw ==
    /\ \A a \in Callers : depositor_balance[a] >= 0
    /\ \A k \in Tokens \X Nonces : sc_balance[k] >= 0
    /\ last.out.sent => last.out.amount <= last.out.held

\* a swap paid out all the contract held of the output asset
C2_Witness ==
    /\ Accepted("swap")
    /\ last.out.sent
    /\ last.out.amount > 0
    /\ last.out.amount = last.out.held

\* C3: an accepted swap pays out amount - floor(amount * fee / 10000), which
\* is less than amount and no more than the reserve of the output asset before
\* the swap, whatever the configuration of the assets.
C3_SwapPayout ==
    [][last'.op = "swap" /\ last'.result = OK =>
        /\ last'.out.amount
              = last'.amount - ((last'.amount * fee_percent) \div PERCENTAGE_TOTAL)
        /\ last'.out.amount < last'.amount
        /\ last'.out.amount <= sc_balance[<<to_token, 0>>]]_vars

\* C4: an accepted deposit raises the caller's balance by
\* amount + floor(amount * fee / 10000), and no deposit lowers a balance.
C4_DepositCredit ==
    [][last'.op = "deposit" =>
        /\ last'.result = OK =>
              depositor_balance'[last'.caller]
                = depositor_balance[last'.caller] + last'.amount
                  + ((last'.amount * fee_percent) \div PERCENTAGE_TOTAL)
        /\ \A a \in Callers : depositor_balance'[a] >= depositor_balance[a]]_vars

\* a second deposit was added to an existing credit, fee part included
C4_Witness ==
    /\ Accepted("deposit")
    /\ (last.amount * fee_percent) \div PERCENTAGE_TOTAL > 0
    /\ depositor_balance[last.caller]
         > last.amount + ((last.amount * fee_percent) \div PERCENTAGE_TOTAL)

\* C5: a rejected call changes nothing that is persisted (fee, output asset,
\* input assets, depositor balances, held balances) and sends nothing.
C5_RejectionNoChange ==
    [][last'.result # OK => UNCHANGED persisted /\ ~last'.out.sent]_vars

\* a deposit below the minimum, with its payment attached, was rejected
C5_Witness ==
    /\ last.op = "deposit"
    /\ last.result = "Deposit amount must be greater than or equal to minimum deposit"
    /\ last.amount > 0

RECURSIVE SumOver(_, _)
SumOver(f, S) ==
    IF S = {} THEN 0
    ELSE LET a == CHOOSE x \in S : TRUE IN f[a] + SumOver(f, S \ {a})

TotalBalance == SumOver(depositor_balance, Callers)
PoolReserve == sc_balance[<<to_token, 0>>]

\* C6 as stated: once deployed, the sum of all depositor balances is at most
\* the contract's held balance of the output asset.
C6_Solvent == deployed => TotalBalance <= PoolReserve

\* C6 amended: the sum of all depositor balances is the credit deposits
\* granted less what harvests paid out, so at most the credit granted.
C6_CreditBound ==
    /\ TotalBalance = SumOver(credited, Callers) - SumOver(harvested, Callers)
    /\ TotalBalance <= SumOver(credited, Callers)

\* depositors are owed more than the reserve holds, after a harvest
C6_Witness ==
    /\ Accepted("harvest")
    /\ TotalBalance > PoolReserve
    /\ SumOver(harvested, Callers) > 0

\* C7: once deployed, the stored fee is strictly between 0 and 10000, so
\* every accepted swap and deposit is computed with such a fee.
C7_FeeInRange == deployed => fee_percent > 0 /\ fee_percent < PERCENTAGE_TOTAL

\* a swap was accepted at the largest fee the owner can set
C7_Witness ==
    /\ Accepted("swap")
    /\ fee_percent = PERCENTAGE_TOTAL - 1

\* C8: setFee(v) by the owner is accepted exactly when 0 < v < 10000 and
\* then stores v; otherwise the stored fee keeps its value.
C8_SetFee ==
    [][last'.op = "setFee" /\ last'.caller = Owner =>
        /\ last'.result = OK <=> (last'.amount > 0 /\ last'.amount < PERCENTAGE_TOTAL)
        /\ last'.result = OK => fee_percent' = last'.amount
        /\ last'.result # OK => fee_percent' = fee_percent]_vars

\* the owner set the smallest fee the contract accepts
C8_Witness ==
    /\ Accepted("setFee")
    /\ last.caller = Owner
    /\ fee_percent = last.amount
    /\ fee_percent = 1

AdminOps == {"setFee", "addFromToken", "setToToken", "withdraw"}

\* C9: an administrative call by anyone but the owner is rejected and changes
\* neither the configuration nor the held balances; the fee, the input assets
\* and the output asset change only in an accepted call of the owner.
C9_OwnerOnly ==
    [][/\ last'.op \in AdminOps /\ last'.caller # Owner =>
            /\ last'.result # OK
            /\ UNCHANGED <<config, sc_balance>>
       /\ config' # config =>
            /\ last'.caller = Owner
            /\ last'.result = OK
            /\ last'.op \in {"init", "setFee", "addFromToken", "setToToken"}]_vars

\* a withdraw by someone else than the owner was turned down while the
\* contract held funds
C9_Witness ==
    /\ last.op = "withdraw"
    /\ last.caller = "alice"
    /\ last.result = NotOwner
    /\ sc_balance[<<last.token, last.nonce>>] > 0

\* C10 as stated: every accepted deposit credits strictly more than the
\* amount deposited.
C10_CreditExceeds ==
    [][last'.op = "deposit" /\ last'.result = OK =>
        depositor_balance'[last'.caller] - depositor_balance[last'.caller]
          > last'.amount]_vars

\* C10 amended: every accepted deposit credits at least the amount deposited,
\* and strictly more exactly when amount * fee >= 10000.
C10_CreditAtLeast ==
    [][last'.op = "deposit" /\ last'.result = OK =>
        LET credit == depositor_balance'[last'.caller] - depositor_balance[last'.caller]
        IN  /\ credit >= last'.amount
            /\ credit > last'.amount
                 <=> last'.amount * fee_percent >= PERCENTAGE_TOTAL]_vars

\* a deposit was accepted whose fee part rounds down to nothing
C10_Witness ==
    /\ Accepted("deposit")
    /\ last.amount >= MINIMUM_DEPOSIT
    /\ last.amount * fee_percent < PERCENTAGE_TOTAL
    /\ credited[last.caller] = last.amount

\* C11: an accepted withdraw sends the contract's whole balance of the
\* token/nonce to the owner, leaving 0 of it, and changes no depositor balance,
\* fee, input asset or output asset.
C11_WithdrawAll ==
    [][last'.op = "withdraw" /\ last'.result = OK =>
        LET k == <<last'.token, last'.nonce>> IN
        /\ last'.caller = Owner
        /\ last'.out = [sent |-> TRUE, to |-> Owner, token |-> k[1], nonce |-> k[2],
                        amount |-> sc_balance[k], held |-> sc_balance[k]]
        /\ sc_balance' = [sc_balance EXCEPT ![k] = 0]
        /\ UNCHANGED <<depositor_balance, config>>]_vars

\* the owner withdrew the reserve of the output asset and left a depositor
\* with a positive credit against a reserve of 0
C11_Witness ==
    /\ Accepted("withdraw")
    /\ last.token = to_token
    /\ last.out.amount > 0
    /\ PoolReserve = 0
    /\ \E a \in Callers : depositor_balance[a] > 0

\* C12: no step removes an asset from the supported input assets.
C12_FromTokensGrow == [][from_tokens \subseteq from_tokens']_vars

\* a second input asset was added next to the one given at deployment
C12_Witness ==
    /\ Accepted("addFromToken")
    /\ Cardinality(from_tokens) = 2

\* C13: a swap is rejected exactly when amount < 10000, or the caller is the
\* zero address, or the asset is not a supported input asset, or the fee is
\* zero, or net = amount - floor(amount * fee / 10000) has net >= amount,
\* net > reserve or net = 0; otherwise it sends exactly net of the output asset
\* to the caller.  The reserve is the balance of the output asset the contract
\* observes while the swap runs, the attached payment included.
C13_SwapRejects ==
    [][last'.op = "swap" =>
        LET amount == last'.amount
            net == amount - ((amount * fee_percent) \div PERCENTAGE_TOTAL)
            observed == sc_balance[<<to_token, 0>>]
                        + (IF <<last'.token, last'.nonce>> = <<to_token, 0>>
                           THEN amount ELSE 0)
            reject == \/ amount < PERCENTAGE_TOTAL
                      \/ last'.caller = ZeroAddress
                      \/ last'.token \notin from_tokens
                      \/ fee_percent = 0
                      \/ net >= amount
                      \/ net > observed
                      \/ net = 0
        IN  /\ last'.result # OK <=> reject
            /\ last'.result = OK =>
                 /\ last'.out.sent
                 /\ last'.out.to = last'.caller
                 /\ last'.out.token = to_token
                 /\ last'.out.nonce = 0
                 /\ last'.out.amount = net]_vars

\* a swap of an input asset other than the output asset was accepted and
\* left part of the reserve in place
C13_Witness ==
    /\ Accepted("swap")
    /\ last.token # to_token
    /\ last.out.amount < last.out.held

\* C14: a deposit is rejected exactly when the caller is the zero address, or
\* the asset is not the output asset, or amount <= 0, or amount < 1000;
\* otherwise it is accepted, sends nothing, takes in the payment and changes
\* no other depositor's balance, nor the fee, nor the assets.
C14_DepositRejects ==
    [][last'.op = "deposit" =>
        LET c == last'.caller
            k == <<last'.token, last'.nonce>>
            reject == \/ c = ZeroAddress
                      \/ last'.token # to_token
                      \/ last'.amount <= 0
                      \/ last'.amount < MINIMUM_DEPOSIT
        IN  /\ last'.result # OK <=> reject
            /\ last'.result = OK =>
                 /\ ~last'.out.sent
                 /\ sc_balance' = [sc_balance EXCEPT ![k] = @ + last'.amount]
                 /\ \A b \in Callers \ {c} :
                       depositor_balance'[b] = depositor_balance[b]
                 /\ depositor_balance'[c] # depositor_balance[c]
                 /\ UNCHANGED config]_vars

\* a deposit of exactly the minimum was accepted while another depositor
\* held a credit
C14_Witness ==
    /\ Accepted("deposit")
    /\ last.amount = MINIMUM_DEPOSIT
    /\ \E b \in Callers \ {last.caller} : depositor_balance[b] > 0

\* C15: an accepted harvest sends an asset that is a supported input asset at
\* the time of the call, and a harvest naming any other asset is rejected.
C15_HarvestInputAsset ==
    [][last'.op = "harvest" =>
        /\ last'.result = OK =>
             /\ last'.token \in from_tokens
             /\ last'.out.token = last'.token
             /\ last'.out.token \in from_tokens
        /\ last'.token \notin from_tokens => last'.result # OK]_vars

\* a depositor with enough credit asked for the output asset, which the
\* contract held but which is no input asset, and was turned down
C15_Witness ==
    /\ last.op = "harvest"
    /\ last.result = "token not supported"
    /\ last.token = to_token
    /\ to_token \notin from_tokens
    /\ last.amount > 0
    /\ depositor_balance[last.caller] >= last.amount
    /\ sc_balance[<<last.token, last.nonce>>] >= last.amount

\* C16: init is accepted exactly when 0 < fee < 10000 and both assets are
\* valid identifiers; it then stores the fee, holds the input asset among the
\* input assets and stores the output asset; a rejected init sets none of them.
C16_Init ==
    [][last'.op = "init" =>
        /\ last'.result = OK <=>
             /\ last'.amount > 0
             /\ last'.amount < PERCENTAGE_TOTAL
             /\ is_valid_esdt_identifier(last'.token)
             /\ is_valid_esdt_identifier(last'.token2)
        /\ last'.result = OK =>
             /\ deployed'
             /\ fee_percent' = last'.amount
             /\ last'.token \in from_tokens'
             /\ to_token' = last'.token2
        /\ last'.result # OK =>
             /\ ~deployed'
             /\ fee_percent' = 0
             /\ from_tokens' = {}
             /\ to_token' = NoToken]_vars

\* an init with a good fee and input asset but a bad output asset was
\* rejected and left nothing set
C16_Witness ==
    /\ last.op = "init"
    /\ last.result = "Invalid ESDT"
    /\ last.amount > 0
    /\ last.amount < PERCENTAGE_TOTAL
    /\ is_valid_esdt_identifier(last.token)
    /\ ~is_valid_esdt_identifier(last.token2)
    /\ fee_percent = 0
    /\ from_tokens = {}

\* C17: for every depositor, what harvest has paid out to them in total never
\* exceeds what deposit has credited to them in total, and their balance is
\* the total credited less the total harvested.
C17_CreditAccounting ==
    \A a \in Callers :
        /\ harvested[a] <= credited[a]
        /\ depositor_balance[a] = credited[a] - harvested[a]

\* a depositor has harvested twice and still holds part of their credit
C17_Witness ==
    \E a \in Callers :
        /\ harvested[a] > 0
        /\ depositor_balance[a] > 0
        /\ Accepted("harvest")
        /\ last.caller = a
        /\ harvested[a] > last.amount

\* C18: a deposit or harvest changes no balance but the caller's, and a swap
\* or withdraw, accepted or not, changes no depositor balance, fee or asset.
C18_Frame ==
    [][/\ last'.op \in {"deposit", "harvest"} =>
            \A b \in Callers \ {last'.caller} :
                depositor_balance'[b] = depositor_balance[b]
       /\ last'.op \in {"swap", "withdraw"} =>
            UNCHANGED <<depositor_balance, config>>]_vars

\* a deposit was accepted from a caller while the other depositor had both a
\* credit and a harvest behind them
C18_Witness ==
    /\ Accepted("deposit")
    /\ \E b \in Callers \ {last.caller} :
          depositor_balance[b] > 0 /\ harvested[b] > 0

\* C19: a swap that passes the checks on the amount, the caller, the asset
\* and the fee has fee >= 1 and 0 < net < amount, so no swap is rejected with
\* "incorrect fee", "nothing to send" or, once deployed, "zero fee".
C19_SwapFeeChecksDead ==
    [][last'.op = "swap" =>
        LET amount == last'.amount
            fee == (amount * fee_percent) \div PERCENTAGE_TOTAL
            net == amount - fee
        IN  /\ last'.result \notin {"incorrect fee", "nothing to send", "zero fee"}
            /\ last'.result \notin {"amount too small", "invalid caller",
                                     "token not supported", "zero fee"} =>
                 /\ fee >= 1
                 /\ net > 0
                 /\ net < amount]_vars

\* a swap went past the fee checks at the smallest fee and amount and was
\* stopped by the liquidity check only
C19_Witness ==
    /\ last.op = "swap"
    /\ last.result = "no liquidity"
    /\ fee_percent = 1
    /\ last.amount = PERCENTAGE_TOTAL

====
